---- MODULE Spec2Model ----
(***************************************************************************)
(* Order execution engine: admission (routes/orders.ts), the BullMQ job    *)
(* layer (services/orderQueue.ts), the per-order pipeline                  *)
(* (services/orderExecutor.ts), the quote source and swap executor         *)
(* (services/mockDexRouter.ts) and the order store (db/orderRepository.ts).*)
(* Clients read the status stream through the websocket route              *)
(* (routes/orders.ts) and the registry of subscribers.                     *)
(* Three parts are also run on their own, each under its own               *)
(* specification: the retry helper (utils/helpers.ts, RetrySpec), the      *)
(* registry of websocket subscribers (services/websocketManager.ts,        *)
(* WsSpec) and the admission handler with bodies of every kind             *)
(* (AdmissionSpec).                                                        *)
(*                                                                         *)
(* Every awaited call of the pipeline is one action; the synchronous code  *)
(* that follows an await (event emission, the slippage comparison) belongs *)
(* to the action of that await.                                            *)
(*                                                                         *)
(* Numbers are fixed point: prices and output amounts in thousandths,      *)
(* variances, fees and slippage in thousandths.                            *)
(***************************************************************************)
EXTENDS Integers, Sequences, FiniteSets, TLC

VARIABLES
    orders,       \* table orders: order id -> row (only created orders)
    history,      \* table order_status_history: order id -> rows, oldest first
    job,          \* BullMQ jobs whose data.orderId is the order id, oldest first
    pc,           \* position of executeOrder(o): <<label, status>>
    quotes,       \* local `quotes` of the running executeOrder
    result,       \* local `result` of the running executeOrder
    attempt,      \* loop variable of the running retryWithExponentialBackoff
    err,          \* the error caught by the latest run's catch block
    published,    \* statusUpdate events emitted by the executor, in order
    backoffs,     \* job-level backoff delays applied so far, per order
    storeFaults,  \* store queries that were answered with an error so far
    limiter,      \* jobs the worker started in the current limiter window
    enqueues,     \* calls of OrderQueue.addOrder so far, per order id
    env,          \* what the clients and the store of this behaviour may do
    swaps,        \* executeSwap calls that returned a result so far, per order
    server,       \* the server process: running, closing, closed or exited
    request,      \* the body of the POST /api/orders/execute being handled
    reply,        \* the reply to the latest POST /api/orders/execute
    rw,           \* one run of retryWithExponentialBackoff: its locals and outcome
    fnLog,        \* what each call of that run's fn did, in call order
    connections,  \* WebSocketManager.connections: order id -> socket
    sockets,      \* every socket: readyState, listeners, messages sent to it
    added,        \* sockets passed to addConnection, per order id, in call order
    wsCall,       \* the latest call of the WebSocketManager or event of a socket
    wsRoute       \* the websocket route's handler of each socket: id and position

vars == <<orders, history, job, pc, quotes, result, attempt, err, published,
          backoffs, storeFaults, limiter, enqueues, env, swaps, server, request,
          reply, rw, fnLog, connections, sockets, added, wsCall, wsRoute>>

\* The state of the store, the queue and the executor.
pipelineVars == <<orders, history, job, pc, quotes, result, attempt, err,
                  published, backoffs, storeFaults, limiter, enqueues, env,
                  swaps, server>>
\* The state of the admission handler run on its own.
admitVars == <<request, reply>>

\* The state of the retry helper run on its own and of the status fan-out.
retryVars == <<rw, fnLog>>
wsVars == <<connections, sockets, added, wsCall, wsRoute>>

(***************************************************************************)
(* Bounds of the model                                                     *)
(***************************************************************************)
\* The uuids of the orders, in the order in which they are generated.
OrderSeq == <<"o1", "o2">>
OrderIds == {OrderSeq[i] : i \in 1..Len(OrderSeq)}
\* The sockets of the connections the server accepts, in that order.
SocketSeq == <<"s1", "s2">>
SocketIds == {SocketSeq[i] : i \in 1..Len(SocketSeq)}
MaxStoreFaults == 1
MaxReEnqueues == 1
MaxRetriesArg == 3
MaxSent == 2

(***************************************************************************)
(* Program constants                                                       *)
(***************************************************************************)
MAX_RETRIES == 3
BackoffBaseDelay == 1000
RaydiumFee == 3
MeteoraFee == 2
RaydiumLiquidityDepth == 100000
MeteoraLiquidityDepth == 120000
MaxConcurrentOrders == 10
OrdersPerMinute == 100

NULL == <<>>
Some(v) == <<v>>

Terminal == {"CONFIRMED", "FAILED"}

\* Position of a status on the documented lifecycle.
Rank(s) ==
    CASE s = "PENDING" -> 0
      [] s = "ROUTING" -> 1
      [] s = "BUILDING" -> 2
      [] s = "SUBMITTED" -> 3
      [] s = "CONFIRMED" -> 4
      [] s = "FAILED" -> 4

Idle == <<"idle", "">>

\* The amountIn of a request body (the schema asks for a number >= 0): none,
\* a small one, and one above the liquidity depth of both venues.
Amounts == {0, 100, 120001}
\* The type of a request body: the order type the handler supports, one it
\* does not, and a string that is no order type.
OrderTypes == {"market", "limit", "swap"}
\* The slippage of a request body: absent, or a number in [0, 1].
SlippageInputs == {NULL, Some(0), Some(1)}

\* 0.98 + Math.random() * 0.04 and 0.97 + Math.random() * 0.05, in thousandths
RaydiumVariances == {980, 1010}
MeteoraVariances == {1000}
\* 0.995 + Math.random() * 0.01, in thousandths
ExecutionVariances == {995, 1004}

\* The behaviours explored. One order with every request body, every quote
\* and up to MaxStoreFaults store errors; or all the orders, with one request
\* body, one quote and a store that answers every query, running under the
\* default worker options and with up to MaxReEnqueues repeated calls of
\* addOrder, under MAX_CONCURRENT_ORDERS=1, or under ORDERS_PER_MINUTE=2.
OneOrder ==
    [ids |-> {OrderSeq[1]}, types |-> OrderTypes, amounts |-> Amounts,
     slippages |-> SlippageInputs,
     raydiumVariances |-> RaydiumVariances,
     executionVariances |-> ExecutionVariances,
     storeErrors |-> MaxStoreFaults, reEnqueues |-> 0,
     maxConcurrent |-> MaxConcurrentOrders, ordersPerMinute |-> OrdersPerMinute,
     swapThrows |-> TRUE, watchers |-> {}]

AllOrders ==
    [ids |-> OrderIds, types |-> {"market"}, amounts |-> {100},
     slippages |-> {NULL},
     raydiumVariances |-> {1010}, executionVariances |-> {1004},
     storeErrors |-> 0, reEnqueues |-> 0,
     maxConcurrent |-> MaxConcurrentOrders, ordersPerMinute |-> OrdersPerMinute,
     swapThrows |-> TRUE, watchers |-> {}]

\* One order, watched by a client that opens its stream at any moment
\* (watchers: the sockets clients open, each with the order id it asks for);
\* and all the orders, the first of them watched, with swaps that do not throw.
Watched ==
    [AllOrders EXCEPT !.ids = {OrderSeq[1]},
                      !.watchers = {<<SocketSeq[1], OrderSeq[1]>>}]
WatchedAmongOthers ==
    [AllOrders EXCEPT !.watchers = {<<SocketSeq[1], OrderSeq[1]>>},
                      !.swapThrows = FALSE]

Environments ==
    {OneOrder, [AllOrders EXCEPT !.reEnqueues = MaxReEnqueues],
     [AllOrders EXCEPT !.maxConcurrent = 1],
     [AllOrders EXCEPT !.ordersPerMinute = 2], Watched, WatchedAmongOthers}

\* No order submitted, no job, no run of executeOrder.
QuietPipeline ==
    /\ orders = <<>>
    /\ history = [o \in OrderIds |-> <<>>]
    /\ job = [o \in OrderIds |-> <<>>]
    /\ pc = [o \in OrderIds |-> Idle]
    /\ quotes = [o \in OrderIds |-> NULL]
    /\ result = [o \in OrderIds |-> NULL]
    /\ attempt = [o \in OrderIds |-> 0]
    /\ err = [o \in OrderIds |-> NULL]
    /\ published = [o \in OrderIds |-> <<>>]
    /\ backoffs = [o \in OrderIds |-> <<>>]
    /\ storeFaults = 0
    /\ limiter = 0
    /\ enqueues = [o \in OrderIds |-> 0]
    /\ swaps = [o \in OrderIds |-> 0]
    /\ server = "running"

\* The retry helper is not run on its own.
NoRun ==
    [maxRetries |-> 0, baseDelay |-> 0, attempt |-> 0, lastError |-> NULL,
     sleeps |-> <<>>, outcome |-> "idle", returned |-> NULL, thrown |-> NULL]

QuietRetry == rw = NoRun /\ fnLog = <<>>

\* No POST /api/orders/execute is followed on its own.
QuietAdmission == request = NULL /\ reply = NULL

\* op is the method called or the event emitted, orderId and socket are its
\* arguments, registered says whether the registry held that order id (that
\* socket, for an event) before, threw whether the call threw.
NoCall ==
    [op |-> "new", orderId |-> "", socket |-> "", registered |-> FALSE,
     threw |-> FALSE]

\* new WebSocketManager(): an empty registry; no socket was accepted yet.
QuietFanout ==
    /\ connections = <<>>
    /\ sockets = <<>>
    /\ added = [o \in OrderIds |-> <<>>]
    /\ wsCall = NoCall
    /\ wsRoute = <<>>

Init ==
    /\ QuietPipeline
    /\ env \in Environments
    /\ QuietAdmission
    /\ QuietRetry
    /\ QuietFanout

(***************************************************************************)
(* Order store (db/orderRepository.ts)                                     *)
(***************************************************************************)
COALESCE(a, b) == IF a # NULL THEN a ELSE b

NoUpdates ==
    [txHash |-> NULL, executedPrice |-> NULL, executedAmount |-> NULL,
     dex |-> NULL, error |-> NULL]

\* INSERT INTO orders ... : the row of a new order.
createOrder(order) ==
    [type |-> order.type, tokenIn |-> order.tokenIn, tokenOut |-> order.tokenOut,
     amountIn |-> order.amountIn, slippage |-> order.slippage,
     status |-> order.status, txHash |-> NULL, executedPrice |-> NULL,
     executedAmount |-> NULL, dex |-> NULL, error |-> NULL,
     retryCount |-> order.retryCount]

\* Mutant of updateOrderStatus: the UPDATE does not set the status.
updateOrderStatus_NoStatus(row, status, updates) ==
    [row EXCEPT !.txHash = COALESCE(updates.txHash, @),
                !.executedPrice = COALESCE(updates.executedPrice, @),
                !.executedAmount = COALESCE(updates.executedAmount, @),
                !.dex = COALESCE(updates.dex, @),
                !.error = COALESCE(updates.error, @)]

\* UPDATE orders SET status = $1, tx_hash = COALESCE($2, tx_hash), ...
updateOrderStatus(row, status, updates) ==
    [row EXCEPT !.status = status,
                !.txHash = COALESCE(updates.txHash, @),
                !.executedPrice = COALESCE(updates.executedPrice, @),
                !.executedAmount = COALESCE(updates.executedAmount, @),
                !.dex = COALESCE(updates.dex, @),
                !.error = COALESCE(updates.error, @)]

\* Mutant of incrementRetryCount: the UPDATE also notes that a run failed.
incrementRetryCount_NotesError(row) ==
    [row EXCEPT !.retryCount = @ + 1, !.error = Some("Run failed")]

\* UPDATE orders SET retry_count = retry_count + 1 ... RETURNING retry_count
incrementRetryCount(row) == [row EXCEPT !.retryCount = @ + 1]

\* INSERT INTO order_status_history: the columns taken from an update.
\* timestamp is left out: rows of one order are inserted one after the
\* other, so insertion order is the ORDER BY timestamp ASC order.
addStatusHistory(rows, update) ==
    Append(rows, [status |-> update.status, txHash |-> update.txHash,
                  executedPrice |-> update.executedPrice,
                  error |-> update.error, dex |-> update.dex,
                  routing |-> update.routing])

\* An OrderStatusUpdate that carries the status only.
StatusUpdate(o, status) ==
    [orderId |-> o, status |-> status, txHash |-> NULL, executedPrice |-> NULL,
     dex |-> NULL, error |-> NULL, routing |-> NULL]

\* The answers a store query can get: an error while faults remain.
StoreAnswers == IF storeFaults < env.storeErrors THEN {TRUE, FALSE} ELSE {TRUE}

Error(message) == [name |-> "Error", message |-> message]
StoreError == Error("store query failed")

\* Mutant of ErrorMessage: the caught error's message is dropped.
ErrorMessage_Generic(e) == "Unknown error"

\* error instanceof Error ? error.message : 'Unknown error'
ErrorMessage(e) == IF e.name = "Error" THEN e.message ELSE "Unknown error"

(***************************************************************************)
(* Quote source, route selection and swap executor (mockDexRouter.ts)      *)
(***************************************************************************)
\* getBasePrice: 0.5 + frac(sin(code(tokenIn[0]) + code(tokenOut[0])) * 10000) * 10
\* tabulated in thousandths for the pairs of the model.
getBasePrice(tokenIn, tokenOut) ==
    CASE tokenIn = "SOL" /\ tokenOut = "USDC" -> 3171
      [] OTHER -> 8466

\* price * (1 - priceImpact / 100) with priceImpact = amountIn / depth * 100
EffectivePrice(price, amountIn, liquidityDepth) ==
    (price * (liquidityDepth - amountIn)) \div liquidityDepth

\* (amountIn * effectivePrice) * (1 - fee)
OutputAmount(amountIn, effectivePrice, fee) ==
    ((amountIn * effectivePrice) \div 1000) * (1000 - fee)

\* priceImpact = (amountIn / liquidityDepth) * 100 is in thousandths of a
\* percent; the depths are multiples of 100, so the division is the same.
Quote(dex, tokenIn, tokenOut, amountIn, variance, fee, liquidityDepth) ==
    LET price == (getBasePrice(tokenIn, tokenOut) * variance) \div 1000
        effectivePrice == EffectivePrice(price, amountIn, liquidityDepth)
    IN  [dex |-> dex, price |-> effectivePrice, fee |-> fee,
         outputAmount |-> OutputAmount(amountIn, effectivePrice, fee),
         priceImpact |-> (amountIn * 1000) \div (liquidityDepth \div 100)]

getRaydiumQuote(tokenIn, tokenOut, amountIn, variance) ==
    Quote("raydium", tokenIn, tokenOut, amountIn, variance, RaydiumFee,
          RaydiumLiquidityDepth)

getMeteorQuote(tokenIn, tokenOut, amountIn, variance) ==
    Quote("meteora", tokenIn, tokenOut, amountIn, variance, MeteoraFee,
          MeteoraLiquidityDepth)

\* Mutant of selectBest: the comparison is reversed.
selectBest_Reversed(raydiumQuote, meteoraQuote) ==
    IF raydiumQuote.outputAmount < meteoraQuote.outputAmount
    THEN raydiumQuote
    ELSE meteoraQuote

\* raydiumQuote.outputAmount > meteoraQuote.outputAmount ? raydiumQuote : meteoraQuote
selectBest(raydiumQuote, meteoraQuote) ==
    IF raydiumQuote.outputAmount > meteoraQuote.outputAmount
    THEN raydiumQuote
    ELSE meteoraQuote

getBestQuote(tokenIn, tokenOut, amountIn, vr, vm) ==
    LET raydiumQuote == getRaydiumQuote(tokenIn, tokenOut, amountIn, vr)
        meteoraQuote == getMeteorQuote(tokenIn, tokenOut, amountIn, vm)
    IN  [raydium |-> raydiumQuote, meteora |-> meteoraQuote,
         best |-> selectBest(raydiumQuote, meteoraQuote)]

\* Mutant of executeSwap: the result names the first venue, not the quote's.
executeSwap_FirstVenue(quote, variance, hash) ==
    [txHash |-> hash,
     executedPrice |-> (quote.price * variance) \div 1000,
     executedAmount |-> (quote.outputAmount * variance) \div 1000,
     dex |-> "raydium"]

\* The ExecutionResult of a swap that did not throw; txHash is a fresh hash,
\* identified here by the order and the run that generated it.
executeSwap(quote, variance, hash) ==
    [txHash |-> hash,
     executedPrice |-> (quote.price * variance) \div 1000,
     executedAmount |-> (quote.outputAmount * variance) \div 1000,
     dex |-> quote.dex]

SlippageError == Error("Slippage tolerance exceeded")
QuoteSlippageError == Error("Slippage tolerance exceeded during quote")
NotFoundError == Error("Order not found")

\* quotes.best.outputAmount < quotes.best.outputAmount * (1 - order.slippage)
SlippageExceeded(outputAmount, slippage) ==
    outputAmount * 1000 < outputAmount * (1000 - slippage)

(***************************************************************************)
(* Retry policy (utils/helpers.ts) and job options (orderQueue.ts)         *)
(***************************************************************************)
RECURSIVE Pow2(_)
Pow2(n) == IF n = 0 THEN 1 ELSE 2 * Pow2(n - 1)

\* retryWithExponentialBackoff: attempt === maxRetries ends the loop
LastAttempt_Early(k, maxRetries) == k + 1 = maxRetries
LastAttempt(k, maxRetries) == k = maxRetries

\* defaultJobOptions.attempts: the total number of runs BullMQ gives a job
JobAttempts == MAX_RETRIES

\* BullMQ's exponential backoff: delay * 2^(attemptsMade - 1)
JobBackoff(attemptsMade) == BackoffBaseDelay * Pow2(attemptsMade - 1)

\* catch block: retryCount >= this.maxRetries marks the order FAILED
RetriesExhausted(retryCount) == retryCount >= MAX_RETRIES

(***************************************************************************)
(* Admission: POST /api/orders/execute (routes/orders.ts)                  *)
(***************************************************************************)
DefaultSlippage == 10

\* request.body.slippage || 0.01
SlippageOrDefault(s) == IF s = NULL \/ s = Some(0) THEN DefaultSlippage ELSE s[1]

\* A job the queue has just accepted.
NewJob == [state |-> "waiting", attemptsMade |-> 0]

\* queue.add('execute', {orderId}) without the jobId option: BullMQ gives
\* every job an id of its own, so each call adds a job.
addOrder_NoJobId(jobs) == Append(jobs, NewJob)

\* queue.add('execute', {orderId}, {jobId: orderId}): BullMQ ignores an add
\* whose job id exists; jobs is the sequence of the jobs of this order id.
addOrder(jobs) == IF jobs # <<>> THEN jobs ELSE Append(jobs, NewJob)

\* The values of the OrderType enum: MARKET and the two order types the
\* README plans, LIMIT and SNIPER.
MARKET == "market"
OrderType == {MARKET, "limit", "sniper"}

\* A request body; tokenIn and tokenOut are the same in every request.
Body(type, amountIn, slippage) ==
    [type |-> type, tokenIn |-> "SOL", tokenOut |-> "USDC",
     amountIn |-> amountIn, slippage |-> slippage]

\* The route's schema: type is in the enum, amountIn >= 0, and slippage, when
\* given, is in [0, 1]. Fastify answers 400 to a body that fails it.
ValidBody(body) ==
    /\ body.type \in OrderType
    /\ body.amountIn >= 0
    /\ body.slippage # NULL => body.slippage[1] >= 0 /\ body.slippage[1] <= 1000

\* Mutant of Supported: the handler does not look at the order type.
Supported_Any(type) == TRUE

\* if (request.body.type !== OrderType.MARKET) return reply.code(400)...
Supported(type) == type = MARKET

Reply(code, orderId, error) == [code |-> code, orderId |-> orderId, error |-> error]

\* POST /api/orders/execute with this body, o being the uuid the handler
\* would generate, answered with this reply: 400 from the schema or from the
\* order type test; else createOrder, addStatusHistory(PENDING), addOrder
\* and 201; a store error ends the handler with 500.
Post(body, o, r) ==
    \/ /\ ~ValidBody(body)
       /\ r = Reply(400, "", "Bad Request")
       /\ UNCHANGED <<orders, history, job, enqueues, storeFaults>>
    \/ /\ ValidBody(body)
       /\ ~Supported(body.type)
       /\ r = Reply(400, "", "Only MARKET orders are currently supported")
       /\ UNCHANGED <<orders, history, job, enqueues, storeFaults>>
    \/ /\ ValidBody(body)
       /\ Supported(body.type)
       /\ \E created \in StoreAnswers :
            LET order == [type |-> body.type, tokenIn |-> body.tokenIn,
                          tokenOut |-> body.tokenOut, amountIn |-> body.amountIn,
                          slippage |-> SlippageOrDefault(body.slippage),
                          status |-> "PENDING", retryCount |-> 0]
            IN  IF created
                THEN /\ r = Reply(201, o, "")
                     /\ orders' = orders @@ (o :> createOrder(order))
                     /\ history' = [history EXCEPT
                            ![o] = addStatusHistory(@, StatusUpdate(o, "PENDING"))]
                     /\ job' = [job EXCEPT ![o] = addOrder(@)]
                     /\ enqueues' = [enqueues EXCEPT ![o] = @ + 1]
                     /\ UNCHANGED storeFaults
                ELSE /\ r = Reply(500, "", "Failed to create order")
                     /\ storeFaults' = storeFaults + 1
                     /\ UNCHANGED <<orders, history, job, enqueues>>

\* The replies of the route.
Replies ==
    {Reply(400, "", "Bad Request"),
     Reply(400, "", "Only MARKET orders are currently supported"),
     Reply(500, "", "Failed to create order")}
    \cup {Reply(201, o, "") : o \in OrderIds}

\* The uuid of the next order: the ids are taken in the order of OrderSeq.
NextId(o) ==
    /\ o \notin DOMAIN orders
    /\ \E i \in 1..Len(OrderSeq) :
         OrderSeq[i] = o /\ \A k \in 1..(i - 1) : OrderSeq[k] \in DOMAIN orders

\* A client posts an order and the handler runs to its reply.
SubmitOrder(o) ==
    /\ o \in env.ids
    /\ NextId(o)
    /\ \E type \in env.types, amountIn \in env.amounts, s \in env.slippages,
          r \in Replies :
         Post(Body(type, amountIn, s), o, r)
    /\ UNCHANGED <<pc, quotes, result, attempt, err, published, backoffs>>
    /\ UNCHANGED <<limiter, env, server, swaps, admitVars, retryVars, wsVars>>

(***************************************************************************)
(* Job layer: the BullMQ worker of orderQueue.ts                           *)
(***************************************************************************)
\* The jobs of order id o that are in the given state, by position.
JobsIn(o, state) == {i \in 1..Len(job[o]) : job[o][i].state = state}

\* The jobs a worker is processing: <<order id, position>>.
ActiveJobs == UNION {{<<o, i>> : i \in JobsIn(o, "active")} : o \in OrderIds}

\* The job of order id o (the oldest one), or a record that says there is none.
JobOf(o) ==
    IF job[o] = <<>> THEN [state |-> "none", attemptsMade |-> 0] ELSE job[o][1]

\* The job whose run of executeOrder(o) is in progress.
RunningJob(o) == CHOOSE i \in 1..Len(job[o]) : job[o][i].state = "active"

\* Worker option concurrency: a job is taken only while fewer than
\* maxConcurrent jobs are being processed.
SlotFree_Always(active, maxConcurrent) == TRUE
SlotFree(active, maxConcurrent) == active < maxConcurrent

\* Worker option limiter {max, duration}: a job is taken only while fewer
\* than max jobs were started in the current window of duration ms.
WithinRate_Always(started, max) == TRUE
WithinRate(started, max) == started < max

\* The calls of addOrder that repeated an order id.
RECURSIVE Repeated(_)
Repeated(ids) ==
    IF ids = {} THEN 0
    ELSE LET o == CHOOSE x \in ids : TRUE
         IN  (IF enqueues[o] > 1 THEN enqueues[o] - 1 ELSE 0)
             + Repeated(ids \ {o})

\* OrderQueue.addOrder(orderId) for an order id that was enqueued before.
ReEnqueue(o) ==
    /\ enqueues[o] > 0
    /\ Repeated(OrderIds) < env.reEnqueues
    /\ job' = [job EXCEPT ![o] = addOrder(@)]
    /\ enqueues' = [enqueues EXCEPT ![o] = @ + 1]
    /\ UNCHANGED <<orders, history, pc, quotes, result, attempt, err, published,
                   backoffs, storeFaults>>
    /\ UNCHANGED <<limiter, env, server, swaps, admitVars, retryVars, wsVars>>

\* The worker takes a waiting job and calls executeOrder(job.data.orderId).
StartJob(o) ==
    /\ SlotFree(Cardinality(ActiveJobs), env.maxConcurrent)
    /\ WithinRate(limiter, env.ordersPerMinute)
    /\ \E i \in JobsIn(o, "waiting") :
         job' = [job EXCEPT ![o][i].state = "active"]
    /\ limiter' = limiter + 1
    /\ pc' = [pc EXCEPT ![o] = <<"getOrder", "">>]
    /\ err' = [err EXCEPT ![o] = NULL]
    /\ UNCHANGED <<orders, history, quotes, result, attempt, published,
                   backoffs, storeFaults>>
    /\ UNCHANGED <<enqueues, env, server, swaps, admitVars, retryVars, wsVars>>

\* The limiter window (duration ms after its first job) is over.
LimiterWindowEnds ==
    /\ limiter > 0
    /\ limiter' = 0
    /\ UNCHANGED <<orders, history, job, pc, quotes, result, attempt, err,
                   published, backoffs, storeFaults>>
    /\ UNCHANGED <<enqueues, env, server, swaps, admitVars, retryVars, wsVars>>

\* The backoff delay of a delayed job has passed.
PromoteDelayed(o) ==
    /\ \E i \in JobsIn(o, "delayed") :
         job' = [job EXCEPT ![o][i].state = "waiting"]
    /\ UNCHANGED <<orders, history, pc, quotes, result, attempt, err, published,
                   backoffs, storeFaults>>
    /\ UNCHANGED <<limiter, enqueues, env, server, swaps, admitVars, retryVars, wsVars>>

\* executeOrder resolved: the job is completed.
JobCompleted(j) == [state |-> "completed", attemptsMade |-> j.attemptsMade + 1]

\* executeOrder rejected: retried after the backoff while attempts remain.
JobFailed(j) ==
    IF j.attemptsMade + 1 < JobAttempts
    THEN [state |-> "delayed", attemptsMade |-> j.attemptsMade + 1]
    ELSE [state |-> "failed", attemptsMade |-> j.attemptsMade + 1]

\* defaultJobOptions: removeOnComplete {age: 3600}, removeOnFail {age: 86400}:
\* the seconds a finished job is kept.
RemoveOnCompleteAge == 3600
RemoveOnFailAge == 86400
Retention(state) ==
    IF state = "failed" THEN RemoveOnFailAge ELSE RemoveOnCompleteAge

\* queue.getWaitingCount(), getActiveCount(), getCompletedCount(),
\* getFailedCount(): the jobs in that state.
JobCount(state) ==
    Cardinality(UNION {{<<o, i>> : i \in JobsIn(o, state)} : o \in OrderIds})

getQueueMetrics ==
    [waiting |-> JobCount("waiting"), active |-> JobCount("active"),
     completed |-> JobCount("completed"), failed |-> JobCount("failed"),
     total |-> JobCount("waiting") + JobCount("active")
               + JobCount("completed") + JobCount("failed")]

\* The running executeOrder(o) returns (thrown = FALSE) or throws.
EndRun(o, thrown) ==
    /\ job' = [job EXCEPT ![o][RunningJob(o)] =
           IF thrown THEN JobFailed(@) ELSE JobCompleted(@)]
    /\ backoffs' = [backoffs EXCEPT ![o] =
           IF thrown /\ JobFailed(job[o][RunningJob(o)]).state = "delayed"
           THEN Append(@, JobBackoff(job[o][RunningJob(o)].attemptsMade + 1))
           ELSE @]
    /\ pc' = [pc EXCEPT ![o] = Idle]
    /\ quotes' = [quotes EXCEPT ![o] = NULL]
    /\ result' = [result EXCEPT ![o] = NULL]
    /\ attempt' = [attempt EXCEPT ![o] = 0]

\* Control passes to the catch block of executeOrder with error e.
Catch(o, e) ==
    /\ pc' = [pc EXCEPT ![o] = <<"catch", "">>]
    /\ err' = [err EXCEPT ![o] = Some(e)]

emitStatusUpdate(events, update) == Append(events, update)

(***************************************************************************)
(* Status fan-out: WebSocketManager (services/websocketManager.ts)         *)
(***************************************************************************)
OPEN == 1
CLOSING == 2
CLOSED == 3

\* Map.delete for each of the ids.
Delete(conns, ids) == [x \in DOMAIN conns \ ids |-> conns[x]]

\* Mutant of addConnection: an order id that is registered keeps its socket.
addConnection_KeepFirst(conns, orderId, s) ==
    IF orderId \in DOMAIN conns THEN conns
    ELSE [x \in DOMAIN conns \cup {orderId} |->
             IF x = orderId THEN s ELSE conns[x]]

\* this.connections.set(orderId, socket)
addConnection(conns, orderId, s) ==
    [x \in DOMAIN conns \cup {orderId} |-> IF x = orderId THEN s ELSE conns[x]]

\* The 'close' and 'error' listeners addConnection leaves on a socket, one
\* pair per order id it was added for: this.connections.delete(orderId).
onSocketEvent_Ignored(conns, listeners) == conns
onSocketEvent(conns, listeners) == Delete(conns, listeners)

\* JSON.stringify of an OrderStatusUpdate, as the client reads it: a key
\* whose value is undefined is left out, a key of nulls is written as null
\* (the updates the executor emits hold no null). timestamp is left out;
\* the text has no key `message`.
Stringify(update, nulls) ==
    [orderId |-> update.orderId, status |-> update.status,
     txHash |-> update.txHash, executedPrice |-> update.executedPrice,
     dex |-> update.dex, error |-> update.error, routing |-> update.routing,
     nulls |-> nulls, message |-> NULL]

\* Mutant of sendUpdate: without the test of `socket`, reading socket.socket
\* of undefined throws a TypeError.
sendUpdate_NoGuard(conns, socks, update) ==
    IF update.orderId \notin DOMAIN conns
    THEN [sockets |-> socks, threw |-> TRUE]
    ELSE IF socks[conns[update.orderId]].readyState = OPEN
    THEN [sockets |-> [socks EXCEPT
                         ![conns[update.orderId]].sent =
                             Append(@, Stringify(update, {}))],
          threw |-> FALSE]
    ELSE [sockets |-> socks, threw |-> FALSE]

\* Mutant of sendUpdate: the message goes to every registered open socket.
sendUpdate_Broadcast(conns, socks, update) ==
    [sockets |-> [s \in DOMAIN socks |->
                     IF /\ \E o \in DOMAIN conns : conns[o] = s
                        /\ socks[s].readyState = OPEN
                     THEN [socks[s] EXCEPT
                              !.sent = Append(@, Stringify(update, {}))]
                     ELSE socks[s]],
     threw |-> FALSE]

\* Mutant of sendUpdate: the message is put before those already sent.
sendUpdate_NewestFirst(conns, socks, update) ==
    IF /\ update.orderId \in DOMAIN conns
       /\ socks[conns[update.orderId]].readyState = OPEN
    THEN [sockets |-> [socks EXCEPT
                         ![conns[update.orderId]].sent =
                             <<Stringify(update, {})>> \o @],
          threw |-> FALSE]
    ELSE [sockets |-> socks, threw |-> FALSE]

\* Mutant of sendUpdate: the socket's readyState is not looked at.
sendUpdate_AnyState(conns, socks, update) ==
    IF update.orderId \in DOMAIN conns
    THEN [sockets |-> [socks EXCEPT
                         ![conns[update.orderId]].sent =
                             Append(@, Stringify(update, {}))],
          threw |-> FALSE]
    ELSE [sockets |-> socks, threw |-> FALSE]

\* const socket = this.connections.get(update.orderId);
\* if (socket && socket.socket.readyState === 1) socket.socket.send(...)
sendUpdate(conns, socks, update) ==
    IF /\ update.orderId \in DOMAIN conns
       /\ socks[conns[update.orderId]].readyState = OPEN
    THEN [sockets |-> [socks EXCEPT
                         ![conns[update.orderId]].sent =
                             Append(@, Stringify(update, {}))],
          threw |-> FALSE]
    ELSE [sockets |-> socks, threw |-> FALSE]

\* socket !== undefined && socket.socket.readyState === 1
hasConnection(conns, socks, orderId) ==
    orderId \in DOMAIN conns /\ socks[conns[orderId]].readyState = OPEN

\* this.connections.size
getConnectionCount(conns) == Cardinality(DOMAIN conns)

\* server.ts: orderQueue.on('statusUpdate', update => wsManager.sendUpdate(update)),
\* run inside the emit of the executor.
Forward(update) == sockets' = sendUpdate(connections, sockets, update).sockets

(***************************************************************************)
(* The websocket route: GET /api/orders/:orderId/ws (routes/orders.ts)     *)
(***************************************************************************)
\* {orderId, status: order.status, timestamp, message: 'Connected ...'}
Connected(o, status) ==
    [orderId |-> o, status |-> status, txHash |-> NULL, executedPrice |-> NULL,
     dex |-> NULL, error |-> NULL, routing |-> NULL, nulls |-> {},
     message |-> Some("Connected to order status stream")]

\* {error: 'Order not found'}
RouteError(error) ==
    [orderId |-> "", status |-> "", txHash |-> NULL, executedPrice |-> NULL,
     dex |-> NULL, error |-> Some(error), routing |-> NULL, nulls |-> {},
     message |-> NULL]

\* The columns of a history row that getOrderHistory copies as they are:
\* those that are NULL in the row are null in the update it returns.
NullColumns(row) == {k \in {"txHash", "error", "dex", "routing"} : row[k] = NULL}

\* SELECT * FROM order_status_history WHERE order_id = $1 ORDER BY timestamp
\* ASC, each row mapped to an update and written with JSON.stringify.
getOrderHistory(o, rows) ==
    [i \in 1..Len(rows) |->
        Stringify([orderId |-> o, status |-> rows[i].status,
                   txHash |-> rows[i].txHash,
                   executedPrice |-> rows[i].executedPrice,
                   dex |-> rows[i].dex, error |-> rows[i].error,
                   routing |-> rows[i].routing], NullColumns(rows[i]))]

\* A client opens the stream of order id o on a new socket s and the
\* callback of getOrder runs: for an unknown order the error is sent and
\* the socket closed; else the socket is registered, getOrderHistory is
\* started and the connection message is sent. The answer of the query and
\* its callback are one step.
WsOpen(o, s) ==
    /\ <<s, o>> \in env.watchers
    /\ s \notin DOMAIN sockets
    /\ IF o \in DOMAIN orders
       THEN /\ connections' = addConnection(connections, o, s)
            /\ sockets' = sockets @@ (s :>
                   [readyState |-> OPEN, listeners |-> {o},
                    sent |-> <<Connected(o, orders[o].status)>>])
            /\ added' = [added EXCEPT ![o] = Append(@, s)]
            /\ wsRoute' = wsRoute @@ (s :> [orderId |-> o, pc |-> "history"])
       ELSE /\ sockets' = sockets @@ (s :>
                   [readyState |-> CLOSING, listeners |-> {},
                    sent |-> <<RouteError("Order not found")>>])
            /\ wsRoute' = wsRoute @@ (s :> [orderId |-> o, pc |-> "done"])
            /\ UNCHANGED <<connections, added>>
    /\ UNCHANGED <<pipelineVars, admitVars, retryVars, wsCall>>

\* The callback of getOrderHistory runs: every row of the order's history is
\* sent on the socket, oldest first.
WsReplay(s) ==
    /\ s \in DOMAIN wsRoute
    /\ wsRoute[s].pc = "history"
    /\ sockets' = [sockets EXCEPT ![s].sent =
           @ \o getOrderHistory(wsRoute[s].orderId, history[wsRoute[s].orderId])]
    /\ wsRoute' = [wsRoute EXCEPT ![s].pc = "done"]
    /\ UNCHANGED <<pipelineVars, admitVars, retryVars, connections, added,
                   wsCall>>

(***************************************************************************)
(* The pipeline: OrderExecutor.executeOrder (services/orderExecutor.ts)    *)
(***************************************************************************)
\* const order = await this.orderRepository.getOrder(orderId)
GetOrder(o) ==
    /\ pc[o] = <<"getOrder", "">>
    /\ \E ok \in StoreAnswers :
         IF ~ok
         THEN storeFaults' = storeFaults + 1 /\ Catch(o, StoreError)
         ELSE /\ UNCHANGED storeFaults
              /\ IF o \notin DOMAIN orders
                 THEN Catch(o, NotFoundError)
                 ELSE pc' = [pc EXCEPT ![o] = <<"update", "ROUTING">>]
                      /\ UNCHANGED err
    /\ UNCHANGED <<orders, history, job, quotes, result, attempt, published,
                   backoffs>>
    /\ UNCHANGED <<limiter, enqueues, env, server, swaps, admitVars, retryVars, wsVars>>

\* updateStatus, first await: orderRepository.updateOrderStatus(orderId, status)
UpdateStatusWrite(o) ==
    /\ pc[o][1] = "update"
    /\ \E ok \in StoreAnswers :
         IF ok
         THEN /\ orders' = [orders EXCEPT
                     ![o] = updateOrderStatus(@, pc[o][2], NoUpdates)]
              /\ pc' = [pc EXCEPT ![o] = <<"history", pc[o][2]>>]
              /\ UNCHANGED <<storeFaults, err>>
         ELSE /\ storeFaults' = storeFaults + 1
              /\ Catch(o, StoreError)
              /\ UNCHANGED orders
    /\ UNCHANGED <<history, job, quotes, result, attempt, published, backoffs>>
    /\ UNCHANGED <<limiter, enqueues, env, server, swaps, admitVars, retryVars, wsVars>>

\* The statement of executeOrder that follows updateStatus(orderId, status).
AfterUpdateStatus(o, status) ==
    CASE status = "ROUTING" ->
           pc' = [pc EXCEPT ![o] = <<"getBestQuote", "">>] /\ UNCHANGED err
      [] status = "BUILDING" ->
           IF SlippageExceeded(quotes[o][1].best.outputAmount, orders[o].slippage)
           THEN Catch(o, QuoteSlippageError)
           ELSE pc' = [pc EXCEPT ![o] = <<"update", "SUBMITTED">>]
                /\ UNCHANGED err
      [] status = "SUBMITTED" ->
           pc' = [pc EXCEPT ![o] = <<"executeSwap", "">>] /\ UNCHANGED err

\* updateStatus, second await: addStatusHistory(update), then the emit.
UpdateStatusHistory(o) ==
    /\ pc[o][1] = "history"
    /\ \E ok \in StoreAnswers :
         IF ok
         THEN /\ history' = [history EXCEPT
                     ![o] = addStatusHistory(@, StatusUpdate(o, pc[o][2]))]
              /\ published' = [published EXCEPT
                     ![o] = emitStatusUpdate(@, StatusUpdate(o, pc[o][2]))]
              /\ Forward(StatusUpdate(o, pc[o][2]))
              /\ AfterUpdateStatus(o, pc[o][2])
              /\ UNCHANGED storeFaults
         ELSE /\ storeFaults' = storeFaults + 1
              /\ Catch(o, StoreError)
              /\ UNCHANGED <<history, published, sockets>>
    /\ UNCHANGED <<orders, job, quotes, result, attempt, backoffs>>
    /\ UNCHANGED <<limiter, enqueues, env, server, swaps, admitVars, retryVars, connections,
                   added, wsCall, wsRoute>>

\* retryWithExponentialBackoff(() => dexRouter.getBestQuote(...)): the mock
\* quote source never throws, so the first call returns; then the ROUTING
\* event with the routing snapshot is emitted.
GetBestQuote(o) ==
    /\ pc[o] = <<"getBestQuote", "">>
    /\ \E vr \in env.raydiumVariances, vm \in MeteoraVariances :
         LET q == getBestQuote(orders[o].tokenIn, orders[o].tokenOut,
                               orders[o].amountIn, vr, vm)
             update == [StatusUpdate(o, "ROUTING") EXCEPT
                           !.routing = Some([raydium |-> q.raydium,
                                             meteora |-> q.meteora,
                                             selected |-> q.best.dex])]
         IN  /\ quotes' = [quotes EXCEPT ![o] = Some(q)]
             /\ published' = [published EXCEPT
                    ![o] = emitStatusUpdate(@, update)]
             /\ Forward(update)
    /\ pc' = [pc EXCEPT ![o] = <<"update", "BUILDING">>]
    /\ UNCHANGED <<orders, history, job, result, attempt, err, backoffs,
                   storeFaults>>
    /\ UNCHANGED <<limiter, enqueues, env, server, swaps, admitVars, retryVars, connections,
                   added, wsCall, wsRoute>>

\* One call of dexRouter.executeSwap(order, quotes.best) inside
\* retryWithExponentialBackoff(fn, this.maxRetries): it throws (random > 0.95)
\* or returns; a throw on the last attempt leaves the wrapper.
ExecuteSwap(o) ==
    /\ pc[o] = <<"executeSwap", "">>
    /\ \/ /\ \E v \in env.executionVariances :
               result' = [result EXCEPT ![o] = Some(executeSwap(
                   quotes[o][1].best, v,
                   <<o, job[o][RunningJob(o)].attemptsMade>>))]
          /\ swaps' = [swaps EXCEPT ![o] = @ + 1]
          /\ pc' = [pc EXCEPT ![o] = <<"confirm", "">>]
          /\ UNCHANGED <<attempt, err>>
       \/ /\ env.swapThrows
          /\ IF LastAttempt(attempt[o], MAX_RETRIES)
             THEN Catch(o, SlippageError) /\ UNCHANGED attempt
             ELSE attempt' = [attempt EXCEPT ![o] = @ + 1]
                  /\ UNCHANGED <<pc, err>>
          /\ UNCHANGED <<result, swaps>>
    /\ UNCHANGED <<orders, history, job, quotes, published, backoffs,
                   storeFaults>>
    /\ UNCHANGED <<limiter, enqueues, env, server, admitVars, retryVars, wsVars>>

\* Mutant of Confirm: a statusUpdate listener throws inside the emit of the
\* CONFIRMED event, so control passes to the catch block after the write.
Confirm_EmitThrows(o) ==
    /\ pc[o] = <<"confirm", "">>
    /\ LET r == result[o][1]
       IN  /\ orders' = [orders EXCEPT ![o] = updateOrderStatus(@,
                  "CONFIRMED",
                  [txHash |-> Some(r.txHash),
                   executedPrice |-> Some(r.executedPrice),
                   executedAmount |-> Some(r.executedAmount),
                   dex |-> Some(r.dex), error |-> NULL])]
           /\ published' = [published EXCEPT ![o] = emitStatusUpdate(@,
                  [StatusUpdate(o, "CONFIRMED") EXCEPT
                      !.txHash = Some(r.txHash),
                      !.executedPrice = Some(r.executedPrice),
                      !.dex = Some(r.dex)])]
    /\ Catch(o, Error("listener failed"))
    /\ UNCHANGED <<history, job, backoffs, quotes, result, attempt, storeFaults>>
    /\ UNCHANGED <<limiter, enqueues, env, server, swaps, admitVars, retryVars, wsVars>>

\* updateOrderStatus(orderId, CONFIRMED, {...result}), then the CONFIRMED
\* event; executeOrder returns.
Confirm(o) ==
    /\ pc[o] = <<"confirm", "">>
    /\ \E ok \in StoreAnswers :
         IF ok
         THEN LET r == result[o][1]
                  update == [StatusUpdate(o, "CONFIRMED") EXCEPT
                                !.txHash = Some(r.txHash),
                                !.executedPrice = Some(r.executedPrice),
                                !.dex = Some(r.dex)]
              IN  /\ orders' = [orders EXCEPT ![o] = updateOrderStatus(@,
                         "CONFIRMED",
                         [txHash |-> Some(r.txHash),
                          executedPrice |-> Some(r.executedPrice),
                          executedAmount |-> Some(r.executedAmount),
                          dex |-> Some(r.dex), error |-> NULL])]
                  /\ published' = [published EXCEPT
                         ![o] = emitStatusUpdate(@, update)]
                  /\ Forward(update)
                  /\ EndRun(o, FALSE)
                  /\ UNCHANGED <<storeFaults, err>>
         ELSE /\ storeFaults' = storeFaults + 1
              /\ Catch(o, StoreError)
              /\ UNCHANGED <<orders, published, job, backoffs, quotes, result,
                             attempt, sockets>>
    /\ UNCHANGED history
    /\ UNCHANGED <<limiter, enqueues, env, server, swaps, admitVars, retryVars, connections,
                   added, wsCall, wsRoute>>

\* catch: retryCount = await incrementRetryCount(orderId); the order is
\* marked FAILED when the retries are exhausted, else the error is rethrown.
CatchIncrement(o) ==
    /\ pc[o] = <<"catch", "">>
    /\ \E ok \in StoreAnswers :
         IF ok
         THEN /\ orders' = [orders EXCEPT ![o] = incrementRetryCount(@)]
              /\ IF RetriesExhausted(orders'[o].retryCount)
                 THEN /\ pc' = [pc EXCEPT ![o] = <<"fail", "">>]
                      /\ UNCHANGED <<job, backoffs, quotes, result, attempt>>
                 ELSE EndRun(o, TRUE)
              /\ UNCHANGED storeFaults
         ELSE /\ storeFaults' = storeFaults + 1
              /\ EndRun(o, TRUE)
              /\ UNCHANGED orders
    /\ UNCHANGED <<history, err, published>>
    /\ UNCHANGED <<limiter, enqueues, env, server, swaps, admitVars, retryVars, wsVars>>

\* catch: updateOrderStatus(orderId, FAILED, {error: errorMessage}), then the
\* FAILED event; executeOrder returns without rethrowing.
MarkFailed(o) ==
    /\ pc[o] = <<"fail", "">>
    /\ \E ok \in StoreAnswers :
         IF ok
         THEN LET errorMessage == ErrorMessage(err[o][1])
                  update == [StatusUpdate(o, "FAILED") EXCEPT
                                !.error = Some(errorMessage)]
              IN  /\ orders' = [orders EXCEPT ![o] = updateOrderStatus(@,
                         "FAILED", [NoUpdates EXCEPT !.error = Some(errorMessage)])]
                  /\ published' = [published EXCEPT
                         ![o] = emitStatusUpdate(@, update)]
                  /\ Forward(update)
                  /\ EndRun(o, FALSE)
                  /\ UNCHANGED storeFaults
         ELSE /\ storeFaults' = storeFaults + 1
              /\ EndRun(o, TRUE)
              /\ UNCHANGED <<orders, published, sockets>>
    /\ UNCHANGED <<history, err>>
    /\ UNCHANGED <<limiter, enqueues, env, server, swaps, admitVars, retryVars, connections,
                   added, wsCall, wsRoute>>

Next ==
    \/ LimiterWindowEnds
    \/ \E o \in OrderIds, s \in SocketIds : WsOpen(o, s)
    \/ \E s \in SocketIds : WsReplay(s)
    \/ \E o \in OrderIds :
        \/ SubmitOrder(o)
        \/ ReEnqueue(o)
        \/ StartJob(o)
        \/ PromoteDelayed(o)
        \/ GetOrder(o)
        \/ UpdateStatusWrite(o)
        \/ UpdateStatusHistory(o)
        \/ GetBestQuote(o)
        \/ ExecuteSwap(o)
        \/ Confirm(o)
        \/ CatchIncrement(o)
        \/ MarkFailed(o)

Spec == Init /\ [][Next]_vars

(***************************************************************************)
(* retryWithExponentialBackoff(fn, maxRetries, baseDelay) run on its own   *)
(* (utils/helpers.ts): every call of fn is one action, together with the   *)
(* catch block and the sleep that follow it.                               *)
(***************************************************************************)
\* The arguments: maxRetries from -1 (a loop that never runs) to
\* MaxRetriesArg, baseDelay as in the tests (10) and by default (1000).
RetryCounts == (0 - 1)..MaxRetriesArg
BaseDelays == {10, 1000}
\* What a call of fn may return or throw.
FnResults == {"success"}
FnErrors == {Error("Temporary failure"), Error("Permanent failure")}

\* const delay = baseDelay * Math.pow(2, attempt)
RetryDelay_Linear(baseDelay, k) == baseDelay * (k + 1)
RetryDelay(baseDelay, k) == baseDelay * Pow2(k)

\* throw lastError || new Error('Max retries exceeded')
AfterLoop_Generic(lastError) == Error("Max retries exceeded")
AfterLoop(lastError) ==
    IF lastError # NULL THEN lastError[1] ELSE Error("Max retries exceeded")

\* The call retryWithExponentialBackoff(fn, maxRetries, baseDelay) begins.
RetryInit ==
    /\ QuietPipeline
    /\ env = OneOrder
    /\ QuietAdmission
    /\ QuietFanout
    /\ \E m \in RetryCounts, b \in BaseDelays :
         rw = [NoRun EXCEPT !.maxRetries = m, !.baseDelay = b,
                            !.outcome = "running"]
    /\ fnLog = <<>>

\* for (attempt = 0; attempt <= maxRetries; ...): return await fn() returns.
RetryCallReturns ==
    /\ rw.outcome = "running"
    /\ rw.attempt <= rw.maxRetries
    /\ \E v \in FnResults :
         /\ fnLog' = Append(fnLog, [ok |-> TRUE, value |-> Some(v), error |-> NULL])
         /\ rw' = [rw EXCEPT !.outcome = "returned", !.returned = Some(v)]
    /\ UNCHANGED <<pipelineVars, admitVars>>
    /\ UNCHANGED wsVars

\* await fn() throws: the catch block keeps the error, leaves the loop on the
\* last attempt and throws, or sleeps and goes round the loop.
RetryCallThrows ==
    /\ rw.outcome = "running"
    /\ rw.attempt <= rw.maxRetries
    /\ \E e \in FnErrors :
         /\ fnLog' = Append(fnLog, [ok |-> FALSE, value |-> NULL, error |-> Some(e)])
         /\ rw' = IF LastAttempt(rw.attempt, rw.maxRetries)
                  THEN [rw EXCEPT !.lastError = Some(e), !.outcome = "thrown",
                                  !.thrown = Some(AfterLoop(Some(e)))]
                  ELSE [rw EXCEPT !.lastError = Some(e),
                                  !.sleeps = Append(@, RetryDelay(rw.baseDelay,
                                                                  rw.attempt)),
                                  !.attempt = @ + 1]
    /\ UNCHANGED <<pipelineVars, admitVars>>
    /\ UNCHANGED wsVars

\* The loop condition attempt <= maxRetries is false: the statement after the
\* loop throws.
RetryLoopEnds ==
    /\ rw.outcome = "running"
    /\ ~(rw.attempt <= rw.maxRetries)
    /\ rw' = [rw EXCEPT !.outcome = "thrown",
                        !.thrown = Some(AfterLoop(rw.lastError))]
    /\ UNCHANGED fnLog
    /\ UNCHANGED <<pipelineVars, admitVars>>
    /\ UNCHANGED wsVars

RetryNext == RetryCallReturns \/ RetryCallThrows \/ RetryLoopEnds

RetrySpec == RetryInit /\ [][RetryNext]_vars

(***************************************************************************)
(* The WebSocketManager driven by its callers: the websocket route adds    *)
(* the socket of each connection it accepts, the statusUpdate listener of  *)
(* server.ts calls sendUpdate, sockets emit 'error' and 'close'.           *)
(***************************************************************************)
\* The statuses of the updates passed to sendUpdate.
WsStatuses == {"ROUTING", "CONFIRMED"}

Call(op, orderId, s, registered, threw) ==
    [op |-> op, orderId |-> orderId, socket |-> s, registered |-> registered,
     threw |-> threw]

Registered(s) == \E o \in DOMAIN connections : connections[o] = s

WsInit ==
    /\ QuietPipeline
    /\ env = OneOrder
    /\ QuietAdmission
    /\ QuietRetry
    /\ QuietFanout

\* The server accepts a websocket connection: a new socket, open, on which
\* the manager has no listener yet.
Accept(s) ==
    /\ s \notin DOMAIN sockets
    /\ \E i \in 1..Len(SocketSeq) :
         SocketSeq[i] = s /\ \A k \in 1..(i - 1) : SocketSeq[k] \in DOMAIN sockets
    /\ sockets' = sockets @@ (s :> [readyState |-> OPEN, listeners |-> {},
                                    sent |-> <<>>])
    /\ wsCall' = Call("connection", "", s, FALSE, FALSE)
    /\ UNCHANGED <<connections, added, wsRoute>>
    /\ UNCHANGED <<pipelineVars, admitVars>>
    /\ UNCHANGED retryVars

\* wsManager.addConnection(orderId, socket), with the socket of a connection
\* that was not added before (it may have closed since it was accepted).
AddConnection(o, s) ==
    /\ s \in DOMAIN sockets
    /\ sockets[s].listeners = {}
    /\ connections' = addConnection(connections, o, s)
    /\ sockets' = [sockets EXCEPT ![s].listeners = @ \cup {o}]
    /\ added' = [added EXCEPT ![o] = Append(@, s)]
    /\ wsCall' = Call("addConnection", o, s, o \in DOMAIN connections, FALSE)
    /\ UNCHANGED wsRoute
    /\ UNCHANGED <<pipelineVars, admitVars>>
    /\ UNCHANGED retryVars

\* wsManager.sendUpdate(update) for an update of order id o.
SendUpdate(o, status) ==
    /\ \A s \in DOMAIN sockets : Len(sockets[s].sent) < MaxSent
    /\ LET r == sendUpdate(connections, sockets, StatusUpdate(o, status))
       IN  /\ sockets' = r.sockets
           /\ wsCall' = Call("sendUpdate", o, "", o \in DOMAIN connections,
                             r.threw)
    /\ UNCHANGED <<connections, added, wsRoute>>
    /\ UNCHANGED <<pipelineVars, admitVars>>
    /\ UNCHANGED retryVars

\* Socket s emits 'error': it is closing, and its listeners run.
SocketError(s) ==
    /\ s \in DOMAIN sockets
    /\ sockets[s].readyState = OPEN
    /\ sockets' = [sockets EXCEPT ![s].readyState = CLOSING]
    /\ connections' = onSocketEvent(connections, sockets[s].listeners)
    /\ wsCall' = Call("error", "", s, Registered(s), FALSE)
    /\ UNCHANGED <<added, wsRoute>>
    /\ UNCHANGED <<pipelineVars, admitVars>>
    /\ UNCHANGED retryVars

\* Socket s emits 'close' (the peer went away, or the closing handshake is
\* over): it is closed, and its listeners run.
SocketClose(s) ==
    /\ s \in DOMAIN sockets
    /\ sockets[s].readyState # CLOSED
    /\ sockets' = [sockets EXCEPT ![s].readyState = CLOSED]
    /\ connections' = onSocketEvent(connections, sockets[s].listeners)
    /\ wsCall' = Call("close", "", s, Registered(s), FALSE)
    /\ UNCHANGED <<added, wsRoute>>
    /\ UNCHANGED <<pipelineVars, admitVars>>
    /\ UNCHANGED retryVars

\* wsManager.closeConnection(orderId): socket.close() starts the closing
\* handshake of an open socket, then the entry is deleted.
CloseConnection(o) ==
    /\ IF o \in DOMAIN connections
       THEN /\ sockets' = [sockets EXCEPT ![connections[o]].readyState =
                               IF @ = OPEN THEN CLOSING ELSE @]
            /\ connections' = Delete(connections, {o})
       ELSE UNCHANGED <<sockets, connections>>
    /\ wsCall' = Call("closeConnection", o, "", o \in DOMAIN connections, FALSE)
    /\ UNCHANGED <<added, wsRoute>>
    /\ UNCHANGED <<pipelineVars, admitVars>>
    /\ UNCHANGED retryVars

WsNext ==
    \/ \E s \in SocketIds : Accept(s) \/ SocketError(s) \/ SocketClose(s)
    \/ \E o \in OrderIds, s \in SocketIds : AddConnection(o, s)
    \/ \E o \in OrderIds, status \in WsStatuses : SendUpdate(o, status)
    \/ \E o \in OrderIds : CloseConnection(o)

WsSpec == WsInit /\ [][WsNext]_vars

(***************************************************************************)
(* The admission handler on its own: clients post bodies of every kind,    *)
(* also bodies the schema refuses, and the handler answers each of them.   *)
(***************************************************************************)
\* The bodies posted: every type, an amountIn below the schema's minimum,
\* and slippages up to and beyond the schema's maximum.
AdmissionBodies ==
    {Body(type, amountIn, s) :
        type \in OrderTypes, amountIn \in Amounts \cup {-100},
        s \in SlippageInputs \cup {Some(1000), Some(1001)}}

AdmissionInit ==
    /\ QuietPipeline
    /\ env = [OneOrder EXCEPT !.ids = OrderIds]
    /\ QuietAdmission
    /\ QuietRetry
    /\ QuietFanout

\* A POST /api/orders/execute arrives.
Receive(body) ==
    /\ request = NULL
    /\ \E o \in OrderIds : NextId(o)
    /\ request' = Some(body)
    /\ reply' = NULL
    /\ UNCHANGED <<pipelineVars, retryVars, wsVars>>

\* The request is answered: by Fastify's validation, or by the handler.
Respond(o) ==
    /\ request # NULL
    /\ NextId(o)
    /\ \E r \in Replies :
         /\ Post(request[1], o, r)
         /\ reply' = Some(r)
    /\ request' = NULL
    /\ UNCHANGED <<pc, quotes, result, attempt, err, published, backoffs,
                   limiter, env, server, swaps>>
    /\ UNCHANGED <<retryVars, wsVars>>

AdmissionNext ==
    \/ \E body \in AdmissionBodies : Receive(body)
    \/ \E o \in OrderIds : Respond(o)

AdmissionSpec == AdmissionInit /\ [][AdmissionNext]_vars

(***************************************************************************)
(* Shutdown (server.ts: the onClose hook and the signal handlers;          *)
(* services/orderQueue.ts: close)                                          *)
(***************************************************************************)
Signals == {"SIGINT", "SIGTERM"}

\* The process listens and its worker takes jobs.
Serving == server = "running"

\* The process runs code: a started run of executeOrder goes on.
Alive == server \in {"running", "closing"}

\* fastify.close(): the onClose hook starts and awaits orderQueue.close(),
\* whose worker.close() takes no further job and waits for the active ones.
Close ==
    /\ Serving
    /\ server' = "closing"
    /\ UNCHANGED <<orders, history, job, pc, quotes, result, attempt, err,
                   published, backoffs, storeFaults, limiter, enqueues, env,
                   swaps, admitVars, retryVars, wsVars>>

\* No job is active: worker.close() and queue.close() resolve, then
\* closeDatabase() and closeRedis() release the connections.
Released ==
    /\ server = "closing"
    /\ ActiveJobs = {}
    /\ server' = "closed"
    /\ UNCHANGED <<orders, history, job, pc, quotes, result, attempt, err,
                   published, backoffs, storeFaults, limiter, enqueues, env,
                   swaps, admitVars, retryVars, wsVars>>

\* process.on(sig): the handler logs and calls process.exit(0); nothing
\* is awaited and fastify.close() is not called.
Signal(sig) ==
    /\ sig \in Signals
    /\ Alive
    /\ server' = "exited"
    /\ UNCHANGED <<orders, history, job, pc, quotes, result, attempt, err,
                   published, backoffs, storeFaults, limiter, enqueues, env,
                   swaps, admitVars, retryVars, wsVars>>

ShutdownInit ==
    /\ QuietPipeline
    /\ env = AllOrders
    /\ QuietAdmission
    /\ QuietRetry
    /\ QuietFanout

\* Requests are served and jobs are taken while the process serves; the
\* steps of a started run are taken while the process is alive.
ShutdownNext ==
    \/ Close
    \/ Released
    \/ \E sig \in Signals : Signal(sig)
    \/ Serving /\ LimiterWindowEnds
    \/ \E o \in OrderIds :
        \/ Serving /\ SubmitOrder(o)
        \/ Serving /\ StartJob(o)
        \/ Serving /\ PromoteDelayed(o)
        \/ Alive /\ GetOrder(o)
        \/ Alive /\ UpdateStatusWrite(o)
        \/ Alive /\ UpdateStatusHistory(o)
        \/ Alive /\ GetBestQuote(o)
        \/ Alive /\ ExecuteSwap(o)
        \/ Alive /\ Confirm(o)
        \/ Alive /\ CatchIncrement(o)
        \/ Alive /\ MarkFailed(o)

ShutdownSpec == ShutdownInit /\ [][ShutdownNext]_vars

(***************************************************************************)
(* Claims                                                                  *)
(***************************************************************************)
Created(o) == o \in DOMAIN orders
Last(seq) == seq[Len(seq)]
Statuses(events) == {events[i].status : i \in 1..Len(events)}

\* C1: the persisted status of an order never moves to an earlier stage of
\* PENDING, ROUTING, BUILDING, SUBMITTED, CONFIRMED/FAILED, job-level
\* retries included.
C1_StatusNeverRegresses ==
    [][\A o \in DOMAIN orders :
          Rank(orders'[o].status) >= Rank(orders[o].status)]_vars

\* C2: once the persisted status of an order is CONFIRMED or FAILED no step
\* changes the order's row, and no order is published as both CONFIRMED and
\* FAILED.
C2_TerminalIsFinal ==
    [][\A o \in OrderIds :
          /\ (Created(o) /\ orders[o].status \in Terminal)
                => orders'[o] = orders[o]
          /\ ~({"CONFIRMED", "FAILED"} \subseteq Statuses(published'[o]))]_vars

\* C2 witness: an order became terminal after a job-level retry while the
\* pipeline of another order is still running.
C2_Witness ==
    \E o \in DOMAIN orders, p \in OrderIds :
        /\ p # o
        /\ orders[o].status \in Terminal
        /\ orders[o].retryCount > 0
        /\ published[o] # <<>> /\ Last(published[o]).status = orders[o].status
        /\ pc[p] # Idle

\* C3: every enqueued order eventually has the persisted status CONFIRMED or
\* FAILED (fair workers; quote source, swap executor and store always
\* answer). Every job is finished after at most JobAttempts runs and a
\* finished job never runs again, so the claim says: the order of a finished
\* job is CONFIRMED or FAILED.
C3_FinishedJobIsTerminal ==
    \A o \in OrderIds :
        JobOf(o).state \in {"completed", "failed"} =>
            (Created(o) /\ orders[o].status \in Terminal)

\* C4: an order is marked FAILED only after 4 failed runs (the first attempt
\* plus 3 job-level retries), separated by backoffs of 1 s, 2 s and 4 s.
C4_FourRunsBeforeFailed ==
    \A o \in DOMAIN orders :
        orders[o].status = "FAILED" =>
            /\ JobOf(o).attemptsMade = 4
            /\ backoffs[o] = <<1000, 2000, 4000>>

PermanentErrors == {SlippageError, QuoteSlippageError, NotFoundError}

\* C5: a permanent error (slippage breached, order not found) is not retried:
\* the in-run wrapper does not repeat the failing call, and the run that
\* raised it marks the order FAILED instead of ending in a job-level retry.
C5_PermanentErrorNotRetried ==
    \A o \in OrderIds :
        /\ attempt[o] = 0
        /\ (pc[o] = Idle /\ err[o] # NULL /\ err[o][1] \in PermanentErrors)
              => (Created(o) /\ orders[o].status = "FAILED")

\* C6: the error message of an order marked FAILED, on the row and in the
\* published FAILED event, is the message of the error the last run raised.
C6_FailedCarriesLastError ==
    \A o \in DOMAIN orders :
        orders[o].status = "FAILED" =>
            /\ err[o] # NULL
            /\ orders[o].error = Some(err[o][1].message)
            /\ Last(published[o]).status = "FAILED"
            /\ Last(published[o]).error = Some(err[o][1].message)

\* C6 witness: an order marked FAILED whose last run ended with the store
\* error, its earlier runs with the swap executor's error.
C6_Witness ==
    \E o \in DOMAIN orders :
        /\ orders[o].status = "FAILED"
        /\ storeFaults = 1
        /\ orders[o].error = Some(StoreError.message)
        /\ Last(published[o]).error = Some(StoreError.message)

\* C7: every status transition appends an event of that status to the
\* history, the terminal ones included: the last history event of an order
\* whose status is CONFIRMED or FAILED has that status.
C7_HistoryHasTerminalEvent ==
    \A o \in DOMAIN orders :
        orders[o].status \in Terminal =>
            /\ history[o] # <<>>
            /\ Last(history[o]).status = orders[o].status

\* The order fields that replaying history events in order gives.
RECURSIVE Replay(_)
Replay(events) ==
    IF events = <<>>
    THEN [status |-> NULL, txHash |-> NULL, executedPrice |-> NULL,
          dex |-> NULL, error |-> NULL]
    ELSE LET before == Replay(SubSeq(events, 1, Len(events) - 1))
             e == Last(events)
         IN  [status |-> Some(e.status),
              txHash |-> COALESCE(e.txHash, before.txHash),
              executedPrice |-> COALESCE(e.executedPrice, before.executedPrice),
              dex |-> COALESCE(e.dex, before.dex),
              error |-> COALESCE(e.error, before.error)]

\* C8: for an order in a terminal state, replaying its history gives the
\* status and the result and error fields of the order's row.
C8_ReplayEqualsLookup ==
    \A o \in DOMAIN orders :
        orders[o].status \in Terminal =>
            Replay(history[o]) =
                [status |-> Some(orders[o].status), txHash |-> orders[o].txHash,
                 executedPrice |-> orders[o].executedPrice,
                 dex |-> orders[o].dex, error |-> orders[o].error]

\* C9: the selected quote is one of the fetched quotes, unchanged, and no
\* fetched quote has a greater outputAmount.
C9_BestIsMaximal ==
    \A o \in OrderIds :
        quotes[o] # NULL =>
            LET q == quotes[o][1]
            IN  /\ q.best \in {q.raydium, q.meteora}
                /\ q.best.outputAmount >= q.raydium.outputAmount
                /\ q.best.outputAmount >= q.meteora.outputAmount

\* C9 witness: the Raydium quote has the strictly greater output and is
\* selected.
C9_Witness ==
    \E o \in OrderIds :
        /\ quotes[o] # NULL
        /\ quotes[o][1].raydium.outputAmount > quotes[o][1].meteora.outputAmount
        /\ quotes[o][1].best = quotes[o][1].raydium

\* C10: when both quotes have the same outputAmount the first one, the
\* Raydium quote, is selected.
C10_TieSelectsFirst ==
    \A o \in OrderIds :
        (/\ quotes[o] # NULL
         /\ quotes[o][1].raydium.outputAmount = quotes[o][1].meteora.outputAmount)
            => quotes[o][1].best = quotes[o][1].raydium

(***************************************************************************)
(* Claims about the job scheduler                                          *)
(***************************************************************************)
\* C14: enqueuing an order id that already has a job waiting, delayed or
\* active adds no second job: the queue holds at most one job per order id.
C14_OneJobPerOrderId == \A o \in OrderIds : Len(job[o]) <= 1

\* C14 witness: addOrder was called again for an order id whose job is not
\* finished, and that job is being processed.
C14_Witness ==
    \E o \in OrderIds : enqueues[o] > 1 /\ JobOf(o).state = "active"

\* C15: at no time are two invocations of executeOrder for the same order id
\* in progress, whatever the interleaving of enqueue calls, job retries and
\* worker slots.
C15_OneRunPerOrderId ==
    \A o \in OrderIds : Cardinality(JobsIn(o, "active")) <= 1

\* C15 witness: an order id that was enqueued twice is in a retry run while a
\* worker slot is free and the other order is running too.
C15_Witness ==
    \E o \in OrderIds :
        /\ enqueues[o] > 1
        /\ JobOf(o).state = "active" /\ JobOf(o).attemptsMade > 0
        /\ Cardinality(ActiveJobs) = 2
        /\ SlotFree(Cardinality(ActiveJobs), env.maxConcurrent)

\* C16: at every moment the number of orders whose pipeline is executing is
\* at most the configured concurrency limit, however many orders wait.
C16_ConcurrencyCap == Cardinality(ActiveJobs) <= env.maxConcurrent

\* C16 witness: every worker slot is taken and another order waits.
C16_Witness ==
    /\ Cardinality(ActiveJobs) = env.maxConcurrent
    /\ \E o \in OrderIds : JobsIn(o, "waiting") # {}

\* C17: within a limiter window at most ORDERS_PER_MINUTE pipeline runs are
\* started, independently of the concurrency cap.
C17_RateLimit == limiter <= env.ordersPerMinute

\* C17 witness: the budget of the window is used up while a job waits and a
\* worker slot is free.
C17_Witness ==
    /\ limiter = env.ordersPerMinute
    /\ \E o \in OrderIds : JobsIn(o, "waiting") # {}
    /\ SlotFree(Cardinality(ActiveJobs), env.maxConcurrent)

(***************************************************************************)
(* Claims about retryWithExponentialBackoff                                *)
(***************************************************************************)
Failed(calls) == \A i \in 1..Len(calls) : ~calls[i].ok

RECURSIVE Sum(_)
Sum(seq) == IF seq = <<>> THEN 0 ELSE seq[1] + Sum(Tail(seq))

\* C11: the helper calls fn at most maxRetries + 1 times, stops at the first
\* call that succeeds and returns its result, and calls fn exactly
\* maxRetries + 1 times when every call fails.
C11_CallCount ==
    /\ Len(fnLog) <= rw.maxRetries + 1
    /\ \A i \in 1..(Len(fnLog) - 1) : ~fnLog[i].ok
    /\ rw.outcome = "running" => Failed(fnLog)
    /\ rw.outcome = "returned" =>
          Last(fnLog).ok /\ rw.returned = Last(fnLog).value
    /\ rw.outcome = "thrown" =>
          Failed(fnLog) /\ Len(fnLog) = rw.maxRetries + 1

\* C11 witness: fn failed maxRetries times and succeeded on the last call
\* the helper allows.
C11_Witness ==
    /\ rw.outcome = "returned"
    /\ Len(fnLog) = rw.maxRetries + 1
    /\ Len(fnLog) >= 3

C13_BackoffDelays ==
    /\ Len(rw.sleeps) =
          IF rw.outcome = "running" \/ fnLog = <<>> THEN Len(fnLog)
          ELSE Len(fnLog) - 1
    /\ \A k \in 1..Len(rw.sleeps) :
          rw.sleeps[k] = IF k = 1 THEN rw.baseDelay ELSE 2 * rw.sleeps[k - 1]
    /\ Sum(rw.sleeps) = rw.baseDelay * (Pow2(Len(rw.sleeps)) - 1)

\* C13 witness: three failures with baseDelay 1000, then the call that
\* follows the third wait.
C13_Witness ==
    /\ rw.outcome = "returned"
    /\ rw.baseDelay = 1000
    /\ rw.sleeps = <<1000, 2000, 4000>>

(***************************************************************************)
(* Claims about the status fan-out                                         *)
(***************************************************************************)
\* C18: sendUpdate for an order id with no registered subscriber raises no
\* error, sends nothing to any socket and leaves the registry unchanged.
C18_UnregisteredSendIsNoOp ==
    [][(wsCall'.op = "sendUpdate" /\ wsCall'.orderId \notin DOMAIN connections)
         => /\ ~wsCall'.threw
            /\ sockets' = sockets
            /\ connections' = connections]_vars

\* C18 witness: sendUpdate was called for an order id that is not registered
\* while an open socket is registered for another order id.
C18_Witness ==
    /\ wsCall.op = "sendUpdate" /\ ~wsCall.registered
    /\ \E o \in DOMAIN connections :
         o # wsCall.orderId /\ hasConnection(connections, sockets, o)

\* C19: the registry holds at most one subscriber per order id: after
\* addConnection(o, s1) and then addConnection(o, s2), events for o are
\* delivered to s2 only and getConnectionCount counts o once.
C19_LatestSubscriberOnly ==
    [][/\ \A s \in DOMAIN sockets :
            sockets'[s].sent # sockets[s].sent =>
                /\ wsCall'.op = "sendUpdate"
                /\ s = Last(added[wsCall'.orderId])
                /\ Len(sockets'[s].sent) = Len(sockets[s].sent) + 1
                /\ Last(sockets'[s].sent).orderId = wsCall'.orderId
       /\ wsCall'.op = "addConnection" =>
            /\ connections'[wsCall'.orderId] = wsCall'.socket
            /\ sockets'[wsCall'.socket].readyState = OPEN =>
                  \E status \in WsStatuses :
                      sendUpdate(connections', sockets',
                                 StatusUpdate(wsCall'.orderId, status)).sockets
                      = [sockets' EXCEPT ![wsCall'.socket].sent = Append(@,
                            Stringify(StatusUpdate(wsCall'.orderId, status), {}))]
            /\ getConnectionCount(connections')
                 = Cardinality(DOMAIN connections \cup {wsCall'.orderId})]_vars

\* C19 witness: s2 replaced s1 for an order id; an event for it reached s2
\* and not s1, which is still open; the count is 1.
C19_Witness ==
    \E o \in OrderIds :
        /\ Len(added[o]) = 2
        /\ wsCall.op = "sendUpdate" /\ wsCall.orderId = o
        /\ sockets[added[o][1]].readyState = OPEN
        /\ sockets[added[o][1]].sent = <<>>
        /\ sockets[added[o][2]].sent # <<>>
        /\ getConnectionCount(connections) = 1

\* C20: when the socket of a registered subscriber emits close (or error),
\* the subscriber is removed without an explicit unsubscribe: hasConnection
\* becomes false and getConnectionCount decreases by one.
C20_CloseRemovesSubscriber ==
    [][\A o \in DOMAIN connections :
          (wsCall'.op \in {"close", "error"} /\ wsCall'.socket = connections[o])
          => /\ ~hasConnection(connections', sockets', o)
             /\ getConnectionCount(connections')
                  = getConnectionCount(connections) - 1]_vars

\* C20 witness: the socket registered for one of two registered order ids
\* emitted close and only the other order id is left.
C20_Witness ==
    /\ wsCall.op = "close" /\ wsCall.registered
    /\ getConnectionCount(connections) = 1
    /\ \E o \in OrderIds :
         /\ added[o] = <<wsCall.socket>>
         /\ o \notin DOMAIN connections

\* C21: a registered subscriber whose socket is not open is removed lazily:
\* a sendUpdate for its order id that finds the socket not open leaves the id
\* unregistered and no longer counted by getConnectionCount.
C21_LazyRemoval ==
    [][\A o \in OrderIds :
          (/\ wsCall'.op = "sendUpdate"
           /\ wsCall'.orderId = o
           /\ o \in DOMAIN connections
           /\ sockets[connections[o]].readyState # OPEN)
          => /\ o \notin DOMAIN connections'
             /\ getConnectionCount(connections') =
                    getConnectionCount(connections) - 1]_vars

\* C22: sendUpdate sends to no socket whose readyState is not 1 (no socket
\* that is not open ever receives a message), and hasConnection(o) is true
\* exactly when o has a registered subscriber whose socket is open.
C22_OnlyOpenSockets ==
    [][/\ \A s \in DOMAIN sockets :
             sockets'[s].sent # sockets[s].sent => sockets[s].readyState = OPEN
       /\ \A o \in OrderIds :
             hasConnection(connections', sockets', o)
             <=> \E s \in DOMAIN sockets' :
                    /\ o \in DOMAIN connections'
                    /\ connections'[o] = s
                    /\ sockets'[s].readyState = OPEN]_vars

\* A sendUpdate for a registered order id whose socket is not open: nothing
\* was sent and hasConnection is false.
C22_Witness ==
    \E o \in DOMAIN connections :
        /\ wsCall = Call("sendUpdate", o, "", TRUE, FALSE)
        /\ sockets[connections[o]].readyState # OPEN
        /\ sockets[connections[o]].sent = <<>>
        /\ ~hasConnection(connections, sockets, o)

\* C28: over the whole lifetime of an order, all its in-run retries and
\* job-level runs included, the swap executor completes successfully at most
\* once, so at most one ExecutionResult is produced for the order.
C28_SwapAtMostOnce == \A o \in OrderIds : swaps[o] <= 1

\* The orders whose status is FAILED and whose run of executeOrder is over.
FailedOrders == {o \in DOMAIN orders : orders[o].status = "FAILED" /\ pc[o] = Idle}

\* C29: the job of an order that ends FAILED after the job-level retries are
\* exhausted ends in the scheduler's failed state: getQueueMetrics counts it
\* under failed, not completed, and it is kept for the failed-job retention.
C29_ExhaustedJobIsFailed ==
    /\ \A o \in FailedOrders :
          /\ JobOf(o).state = "failed"
          /\ Retention(JobOf(o).state) = RemoveOnFailAge
    /\ getQueueMetrics.failed >= Cardinality(FailedOrders)

\* C30: every order that becomes CONFIRMED has an executed amount of at least
\* selectedQuote.outputAmount * (1 - slippage), the quote being the one its
\* run selected: an execution that deviates by more ends in failure.
C30_ExecutedWithinSlippage ==
    [][\A o \in DOMAIN orders :
          (orders[o].status # "CONFIRMED" /\ orders'[o].status = "CONFIRMED")
          => orders'[o].executedAmount[1] * 1000
                >= quotes[o][1].best.outputAmount * (1000 - orders[o].slippage)]_vars

\* C26: a submission whose order type is not market is rejected at admission:
\* it is answered 400 and leaves no order record, no history event and no job.
C26_NonMarketRejected ==
    [][(request # NULL /\ request' = NULL /\ request[1].type # MARKET)
       => /\ reply' # NULL
          /\ reply'[1].code = 400
          /\ orders' = orders
          /\ history' = history
          /\ job' = job
          /\ enqueues' = enqueues]_vars

\* A limit order was refused by the handler after an order had been admitted.
C26_Witness ==
    /\ reply = Some(Reply(400, "", "Only MARKET orders are currently supported"))
    /\ DOMAIN orders # {}

\* C27: an admitted order is stored with the slippage its submitter gave, for
\* every value in [0, 1], 0 included; the default 0.01 is stored only when
\* the body gives no slippage.
C27_SlippageAsGiven ==
    [][(request # NULL /\ reply' # NULL /\ reply'[1].code = 201)
       => orders'[reply'[1].orderId].slippage =
             IF request[1].slippage = NULL THEN DefaultSlippage
             ELSE request[1].slippage[1]]_vars

(***************************************************************************)
(* Claims about the stream a client reads                                  *)
(***************************************************************************)
\* A message written by sendUpdate: an update of the executor, which has an
\* order id, no null and no `message`. A replayed history row has a null
\* (no row holds both a txHash and an error).
IsLive(m) == m.orderId # "" /\ m.message = NULL /\ m.nulls = {}
\* A status event: written by sendUpdate or replayed from the history.
IsEvent(m) == m.orderId # "" /\ m.message = NULL
LiveEvents(s) == SelectSeq(sockets[s].sent, IsLive)
StatusEvents(s) == SelectSeq(sockets[s].sent, IsEvent)
\* The sockets the route registered for an order id.
Streams == {s \in DOMAIN wsRoute : sockets[s].listeners # {}}

\* C23: the events of one order reach its subscriber in exactly the order in
\* which the executor emitted them: the messages sendUpdate wrote on the
\* subscriber's socket are the events emitted since it was registered, each
\* once and in emission order, also while other orders run.
C23_EmissionOrder ==
    \A s \in Streams :
        LET live == LiveEvents(s)
            emitted == published[wsRoute[s].orderId]
        IN  /\ Len(live) <= Len(emitted)
            /\ \A i \in 1..Len(live) :
                  live[i] = Stringify(emitted[Len(emitted) - Len(live) + i], {})

\* A subscriber has received three events or more of its order while
\* another order, which has emitted events, is running.
C23_Witness ==
    \E s \in Streams :
        /\ Len(LiveEvents(s)) >= 3
        /\ \E o \in OrderIds \ {wsRoute[s].orderId} :
              pc[o] # Idle /\ published[o] # <<>>

\* C24: a client that opens the stream at any moment, also while the
\* pipeline runs, never receives an event for a later status before an
\* event for an earlier one: replayed history and live events together
\* arrive in the order in which the statuses were generated.
C24_ReplayThenLive ==
    \A s \in Streams :
        LET events == StatusEvents(s)
        IN  \A i, j \in 1..Len(events) :
                i < j => Rank(events[i].status) <= Rank(events[j].status)

\* C25: a client subscribed before execution starts (its connection message
\* says PENDING) receives, by the time the order is terminal, exactly one
\* event per status, in order, the last one being the terminal status, and
\* on failure a FAILED event that carries an error string.
C25_OneEventPerStatus ==
    \A s \in Streams :
        LET o == wsRoute[s].orderId
            events == LiveEvents(s)
        IN  (/\ sockets[s].sent[1] = Connected(o, "PENDING")
             /\ orders[o].status \in Terminal
             /\ pc[o] = Idle)
            => /\ events # <<>>
               /\ \A i, j \in 1..Len(events) :
                     i < j => Rank(events[i].status) < Rank(events[j].status)
               /\ Last(events).status = orders[o].status
               /\ Last(events).status = "FAILED" => Last(events).error # NULL

\* C36: sendUpdate(update) delivers the event only to the subscriber
\* registered for update.orderId: no other socket receives anything, the
\* one socket that may change gets this one message appended, and the
\* registry is left unchanged.
C36_OnlyTheSubscriber ==
    [][wsCall'.op = "sendUpdate"
       => /\ connections' = connections
          /\ \A s \in DOMAIN sockets :
                sockets'[s] # sockets[s]
                => /\ wsCall'.orderId \in DOMAIN connections
                   /\ connections[wsCall'.orderId] = s
                   /\ \E status \in WsStatuses :
                         sockets'[s] = [sockets[s] EXCEPT !.sent = Append(@,
                             Stringify(StatusUpdate(wsCall'.orderId, status),
                                       {}))]]_vars

\* Two order ids have open subscribers; the update sent last reached the
\* socket of its order id and the other socket has received nothing.
C36_Witness ==
    /\ wsCall.op = "sendUpdate" /\ wsCall.registered
    /\ \E o \in DOMAIN connections :
         /\ o # wsCall.orderId
         /\ wsCall.orderId \in DOMAIN connections
         /\ hasConnection(connections, sockets, o)
         /\ sockets[connections[o]].sent = <<>>
         /\ sockets[connections[wsCall.orderId]].sent # <<>>

\* C37: a subscriber is removed from the registry only by the close or error
\* of its own socket or by closeConnection for its order id: the close (or
\* error) of another socket, such as one it superseded, leaves it registered.
C37_OwnSocketOnly ==
    [][\A o \in DOMAIN connections :
          (wsCall'.op \in {"close", "error"} /\ wsCall'.socket # connections[o])
          => /\ o \in DOMAIN connections'
             /\ connections'[o] = connections[o]]_vars

(***************************************************************************)
(* Claims about quotes, routing and the order record                       *)
(***************************************************************************)
\* C32: for every order with slippage in [0, 1] the slippage validation of
\* the BUILDING step never raises, whatever quotes the venues return: no run
\* ends in the catch block with the error of that validation.
C32_BuildingCheckNeverRaises ==
    \A o \in DOMAIN orders :
        (orders[o].slippage >= 0 /\ orders[o].slippage <= 1000)
        => err[o] # Some(QuoteSlippageError)

\* The quote has a positive price, a positive output and no negative impact.
ValidQuote(q) == q.price > 0 /\ q.outputAmount > 0 /\ q.priceImpact >= 0

\* C34: for every input amount greater than 0 the quote of each venue has
\* price > 0, outputAmount > 0 and priceImpact >= 0, also for amounts at or
\* above the venue's liquidity depth.
C34_QuotesArePositive ==
    \A o \in DOMAIN orders :
        (quotes[o] # NULL /\ orders[o].amountIn > 0)
        => ValidQuote(quotes[o][1].raydium) /\ ValidQuote(quotes[o][1].meteora)

\* The events that carry a routing snapshot.
HasRouting(e) == e.routing # NULL
Snapshots(events) == SelectSeq(events, HasRouting)

\* C35: when an order becomes CONFIRMED, the venue persisted on the order and
\* carried by the CONFIRMED event is the venue of the quote passed to the
\* swap executor (quotes.best of the run), which is the venue the latest
\* ROUTING snapshot event, the one of the same run, reports as selected.
C35_VenueConsistent ==
    [][\A o \in DOMAIN orders :
          (orders[o].status # "CONFIRMED" /\ orders'[o].status = "CONFIRMED")
          => /\ orders'[o].dex = Some(quotes[o][1].best.dex)
             /\ Last(published'[o]).status = "CONFIRMED"
             /\ Last(published'[o]).dex = Some(quotes[o][1].best.dex)
             /\ Last(Snapshots(published[o])).routing[1].selected
                  = quotes[o][1].best.dex]_vars

\* An order was CONFIRMED on Meteora by a later run, after a run whose
\* snapshot had selected Raydium.
C35_Witness ==
    \E o \in DOMAIN orders :
        /\ orders[o].status = "CONFIRMED"
        /\ orders[o].dex = Some("meteora")
        /\ Len(Snapshots(published[o])) >= 2
        /\ Snapshots(published[o])[1].routing[1].selected = "raydium"

\* C38: a status event is published only after the store write it reports:
\* a step that publishes an event for an order publishes one event, the
\* order's persisted status is then the status of that event, and no store
\* query of that step failed (a run whose write fails publishes no event
\* for that transition).
C38_EventAfterWrite ==
    [][\A o \in OrderIds :
          published'[o] # published[o]
          => /\ published'[o] = Append(published[o], Last(published'[o]))
             /\ o \in DOMAIN orders'
             /\ orders'[o].status = Last(published'[o]).status
             /\ storeFaults' = storeFaults]_vars

\* The store refused the write of BUILDING: the run is in its catch block,
\* the persisted status is ROUTING and the last event published is ROUTING.
C38_Witness ==
    \E o \in DOMAIN orders :
        /\ storeFaults > 0
        /\ pc[o][1] = "catch"
        /\ err[o] = Some(StoreError)
        /\ quotes[o] # NULL
        /\ orders[o].status = "ROUTING"
        /\ Last(published[o]).status = "ROUTING"

\* The runs of executeOrder(o) that ended in failure: every run that is over
\* but the one that confirmed the order (a job is run again only after a
\* run that threw).
FailedRuns(o) ==
    IF orders[o].status = "CONFIRMED" /\ JobOf(o).state = "completed"
    THEN JobOf(o).attemptsMade - 1
    ELSE JobOf(o).attemptsMade

\* C39: the retry counter of an order equals the number of its pipeline runs
\* that ended in failure and never exceeds the configured maximum; an order
\* is FAILED only with the counter at the maximum, and it is not terminal
\* during a backoff wait.
C39_RetryCounter ==
    \A o \in DOMAIN orders :
        /\ pc[o] = Idle => orders[o].retryCount = FailedRuns(o)
        /\ orders[o].retryCount <= MAX_RETRIES
        /\ orders[o].status = "FAILED" => orders[o].retryCount = MAX_RETRIES
        /\ JobOf(o).state = "delayed" => orders[o].status \notin Terminal

\* The order row holds an execution result field.
HasResult(row) ==
    \/ row.txHash # NULL
    \/ row.executedPrice # NULL
    \/ row.executedAmount # NULL
    \/ row.dex # NULL

\* C40: an order carries execution result fields (transaction reference,
\* executed price, executed amount, venue) only if its status is CONFIRMED
\* and an error message only if its status is FAILED; a write of ROUTING,
\* BUILDING or SUBMITTED leaves the result and error fields as they were.
C40_ResultFieldsByStatus ==
    [][\A o \in DOMAIN orders' :
          /\ HasResult(orders'[o]) => orders'[o].status = "CONFIRMED"
          /\ orders'[o].error # NULL => orders'[o].status = "FAILED"
          /\ (/\ o \in DOMAIN orders
              /\ orders'[o].status \in {"ROUTING", "BUILDING", "SUBMITTED"})
             => /\ orders'[o].txHash = orders[o].txHash
                /\ orders'[o].executedPrice = orders[o].executedPrice
                /\ orders'[o].executedAmount = orders[o].executedAmount
                /\ orders'[o].dex = orders[o].dex
                /\ orders'[o].error = orders[o].error]_vars

\* A second run wrote BUILDING on an order whose first run failed: the
\* order has a retry count and neither a result nor an error.
C40_Witness ==
    \E o \in DOMAIN orders :
        /\ orders[o].status = "BUILDING"
        /\ orders[o].retryCount >= 1
        /\ ~HasResult(orders[o])
        /\ orders[o].error = NULL

(***************************************************************************)
(* Claims about shutdown                                                   *)
(***************************************************************************)
\* C31: once the process has shut down (the connections were released after
\* a server close, or the process exited on SIGINT or SIGTERM) no run of
\* the pipeline is left unfinished: every run that was started has ended,
\* its job completed, failed or put back for a retry.
C31_NoRunCutOff ==
    server \in {"closed", "exited"} =>
        \A o \in OrderIds : pc[o] = Idle /\ JobsIn(o, "active") = {}

====
